---- MODULE Spec2Model ----
(***************************************************************************)
(* The notebook master.ipynb as a state machine: one action per code cell, *)
(* run top to bottom.  The cells seed numpy's generator, draw the 2x4      *)
(* production_hours table, extract the 2x2x2 constraints list, build the   *)
(* PuLP model (four integer variables, one objective, five constraints),   *)
(* solve it and print the report.                                          *)
(*                                                                         *)
(* numpy and PuLP/CBC are libraries outside the notebook.  The generator   *)
(* is modelled by the values the legacy MT19937 stream yields for the      *)
(* seeds considered, the solver by exhaustive search for the optima of     *)
(* the model it is handed.  Non-ASCII letters of the labels are written    *)
(* in ASCII (Besiktas, Davutpasa), as the notebook's own variable names.   *)
(***************************************************************************)
EXTENDS Integers, Sequences, FiniteSets, TLC

VARIABLES
    pc,                 \* the next cell to execute
    run,                \* 1: first execution of the notebook, 2: a second one
    seed,               \* the argument of np.random.seed
    capacity,           \* the five right-hand sides of the constraints cell
    gen,                \* numpy's global generator state
    production_hours,   \* the 2x4 table (rows Cutting, Sewing)
    constraints,        \* the nested list constraints[i][j][k]
    model,              \* the pulp.LpProblem
    x,                  \* values of x_1..x_4 once solved
    feasible,           \* the status model.solve returned
    output,             \* the lines printed so far
    prev_hours,         \* production_hours of the previous execution
    sample,             \* a value of random_sample(), rounding specification
    rounded             \* the coefficient obtained from sample

vars == <<pc, run, seed, capacity, gen, production_hours, constraints, model,
          x, feasible, output, prev_hours, sample, rounded>>

(***************************************************************************)
(* Bounds of the model.                                                    *)
(***************************************************************************)
\* Seeds ProgramSeed .. ProgramSeed + NumSeeds - 1 are considered.
NumSeeds == 20
\* The solver searches x_i in 0..MaxUnits (the variables have no upBound).
MaxUnits == 31
\* The reporter specification draws x_i from 0..MaxReportUnits.
MaxReportUnits == 2

(***************************************************************************)
(* Program constants.                                                      *)
(***************************************************************************)
ProgramSeed == 21506050
RandomLow == 1
RandomHigh == 10
SampleSize == 4
PriceTshirts == 10
PriceJeans == 15
CuttingBesiktasHours == 80
SewingBesiktasHours == 60
CuttingDavutpasaHours == 60
SewingDavutpasaHours == 75
ClothPerUnit == 4
ClothSupply == 120
LpMaximize == -1
LpMinimize == 1
LpStatusOptimal == 1
LpStatusNotSolved == 0
LpStatusInfeasible == -1
LpStatusUnbounded == -2
LpStatusUndefined == -3
NumVars == 4

ProgramCapacity ==
    <<CuttingBesiktasHours, SewingBesiktasHours, CuttingDavutpasaHours,
      SewingDavutpasaHours, ClothSupply>>

LpStatusCodes ==
    {LpStatusOptimal, LpStatusNotSolved, LpStatusInfeasible,
     LpStatusUnbounded, LpStatusUndefined}

(***************************************************************************)
(* numpy's generator.  A float is kept as an integer count of 1/Unit.      *)
(* A value r of random_sample() is kept to four decimals: the count r      *)
(* stands for every float f with r/Unit <= f < (r+1)/Unit.                 *)
(* MTSamples[k+1][p] is the p-th value of random_sample() after            *)
(* np.random.seed(ProgramSeed + k), cut to four decimals.                  *)
(***************************************************************************)
Unit == 10000

MTSamples == <<
    << 9592, 3391, 8996, 9903, 1288, 6201, 6562, 8008 >>,
    << 3586, 7369,   88, 3263, 7739, 5021, 2469, 3744 >>,
    << 7561, 3641, 4497, 2874, 8226, 1424, 7068, 1665 >>,
    << 5502, 2305, 4894, 6247, 1690, 4204, 5080, 8172 >>,
    <<  438, 8149, 7449, 8877, 8024, 5068, 2431, 2314 >>,
    <<   95, 9025, 2888, 7742, 9102, 9983, 8625, 5565 >>,
    << 9009, 5136, 6171, 2641, 1846, 1867, 2883,  898 >>,
    <<  146, 9749, 4528, 3356, 5174, 6570, 1219, 3554 >>,
    << 6303, 5720, 9223, 9341, 3719, 2875, 4644, 4159 >>,
    << 5410, 1899, 5334, 7225, 6577, 9225, 3215, 8449 >>,
    << 7964, 6695, 7280, 7553, 3160, 2636,  546, 2023 >>,
    << 5768, 6005, 2106, 2105, 8491, 2843, 7665,  503 >>,
    << 8694, 6236, 8383, 1003, 3791, 3142, 9910, 7243 >>,
    << 6820, 6210,  214, 5433,  329,  400, 6394, 5376 >>,
    << 6898, 9229, 6147, 7469, 2343, 6812, 2798, 3890 >>,
    <<   66, 7841,  155, 9919, 1129, 4513, 8463, 9660 >>,
    << 3799,   38, 4971, 3115, 6101,   11, 3952, 4005 >>,
    << 8791, 2647, 6081, 6346,  618, 5457, 9915, 6332 >>,
    << 9998, 2779, 8526,    0, 1210, 3804,  610,  826 >>,
    << 1730, 5680, 2283, 7813, 8251, 3065, 7266, 2436 >>,
    << 3030, 9738, 6846,  480, 1219, 5354, 2556,  525 >>,
    << 8448, 7797, 4770, 5127, 8995, 8324, 1696,  579 >>>>

Min(a, b) == IF a <= b THEN a ELSE b

Seeds == ProgramSeed .. (ProgramSeed + Min(NumSeeds, Len(MTSamples)) - 1)

\* Values of random_sample(), in [0, 1).
RandomSamples == 0 .. (Unit - 1)

\* A process that never called np.random.seed draws from OS entropy: any
\* value of [0, 1).
UnseededSamples == RandomSamples

\* The generator a fresh process starts with: initialised from OS entropy,
\* differently in each process r.
UnseededGen(r) == [seeded |-> FALSE, key |-> r, pos |-> 0]

\* np.random.seed() with the argument dropped: the stream is chosen by the
\* entropy of the process instead of by s.
np_random_seed_from_entropy(g, s) ==
    [seeded |-> TRUE, key |-> ProgramSeed + g.key, pos |-> 0]

\* np.random.seed(s)
np_random_seed(g, s) == [seeded |-> TRUE, key |-> s, pos |-> 0]

\* The possible results of n successive calls of random_sample() from state g.
random_sample(g, n) ==
    IF g.seeded
    THEN {[i \in 1..n |-> MTSamples[g.key - ProgramSeed + 1][g.pos + i]]}
    ELSE [1..n -> UnseededSamples]

Advance(g, n) == [g EXCEPT !.pos = @ + n]

\* uniform(low=0.0, ...): the low argument dropped.
UniformFromZero(low, high, r) ==
    [lo |-> (high - 0) * r, hi |-> (high - 0) * (r + 1)]

\* np.random.uniform(low, high): low + (high - low) * random_sample().
\* In exact arithmetic the floats f of sample r give the values v with
\* lo <= v < hi.  The code computes in doubles: its result is a double next
\* to such a v, less than 2^-49 (far less than one count) away from it,
\* possibly just below lo or just above hi, and never on the other side of a
\* half-integer than v, since a half-integer is itself a double.
Uniform(low, high, r) ==
    [lo |-> low * Unit + (high - low) * r,
     hi |-> low * Unit + (high - low) * (r + 1)]

\* np.round(u, 0): to the nearest integer, halves to the even one.
NpRound(u) ==
    LET q == u \div Unit
        rem == u % Unit
    IN  IF 2 * rem < Unit THEN q * Unit
        ELSE IF 2 * rem > Unit THEN (q + 1) * Unit
        ELSE IF q % 2 = 0 THEN q * Unit ELSE (q + 1) * Unit

\* np.round over the doubles of Uniform: the result at lo, and the results
\* for the values above lo, where a value that is no half goes to the nearest
\* integer.  A double that is a half comes from a value next to that half
\* (from it exactly at lo), and goes to one of the two integers next to it,
\* which are the results of the values on either side.
NpRoundInterval(iv) ==
    {NpRound(iv.lo)} \cup
    {q * Unit : q \in ((iv.lo + Unit \div 2) \div Unit)
                        .. ((iv.hi + Unit \div 2 - 1) \div Unit)}

\* .astype(int): truncation toward zero (the values are never negative).
AsTypeInt(u) == u \div Unit

\* np.round(np.random.uniform(low = 1, high = 10, ...), 0).astype(int), one
\* entry: the coefficients the floats of sample r give (one, or two when a
\* half lies among the values of the uniform draw).
Coefficient(r) ==
    {AsTypeInt(u) : u \in NpRoundInterval(Uniform(RandomLow, RandomHigh, r))}

\* The arrays the samples s can give, entry by entry.
RandomInts(s) ==
    {v \in [1..Len(s) -> UNION {Coefficient(s[i]) : i \in 1..Len(s)}] :
        \A i \in 1..Len(s) : v[i] \in Coefficient(s[i])}

\* np.reshape(v, (2,2))
Reshape22(v) == << <<v[1], v[2]>>, <<v[3], v[4]>> >>

\* pd.concat([a, b], axis=1): the rows of b to the right of the rows of a
ConcatColumns(a, b) == [i \in 1..Len(a) |-> a[i] \o b[i]]

Line(label, values) == [label |-> label, values |-> values]

\* print(production_hours)
PrintTable(hours) ==
    << Line("        Besiktas       Davutpasa      ", <<>>),
       Line("        T-shirts Jeans  T-shirts Jeans", <<>>),
       Line("Cutting", hours[1]),
       Line("Sewing", hours[2]) >>

EmptyModel == [sense |-> 0, variables |-> <<>>, objective |-> <<>>, constraints |-> <<>>]

(***************************************************************************)
(* Initial states.                                                         *)
(***************************************************************************)
Fresh(r, s, cap) ==
    /\ pc = "seed"
    /\ run = r
    /\ seed = s
    /\ capacity = cap
    /\ gen = UnseededGen(r)
    /\ production_hours = <<>>
    /\ constraints = <<>>
    /\ model = EmptyModel
    /\ x = <<>>
    /\ feasible = LpStatusNotSolved
    /\ output = <<>>
    /\ prev_hours = <<>>
    /\ sample = 0
    /\ rounded = 0

Init == \E s \in Seeds : Fresh(1, s, ProgramCapacity)

(***************************************************************************)
(* The cells.                                                              *)
(***************************************************************************)
\* np.random.seed(21506050)
SeedCell ==
    /\ pc = "seed"
    /\ gen' = np_random_seed(gen, seed)
    /\ pc' = "generate"
    /\ UNCHANGED <<run, seed, capacity, production_hours, constraints, model,
                   x, feasible, output, prev_hours, sample, rounded>>

\* RandomFtoD1 .. print(production_hours)
GenerateCell ==
    /\ pc = "generate"
    /\ \E s1 \in random_sample(gen, SampleSize) :
       \E s2 \in random_sample(Advance(gen, SampleSize), SampleSize) :
       \E RandomFtoD1 \in RandomInts(s1) :
       \E RandomDtoS1 \in RandomInts(s2) :
          LET BesiktasHour == Reshape22(RandomFtoD1)
              DavutpasaHour == Reshape22(RandomDtoS1)
              hours == ConcatColumns(BesiktasHour, DavutpasaHour)
          IN  /\ production_hours' = hours
              /\ output' = output \o PrintTable(hours)
    /\ gen' = Advance(gen, 2 * SampleSize)
    /\ pc' = "extract"
    /\ UNCHANGED <<run, seed, capacity, constraints, model, x, feasible,
                   prev_hours, sample, rounded>>

(***************************************************************************)
(* The extraction loop of the fourth cell:                                 *)
(*   for j, col in enumerate(production_hours.columns):                    *)
(*       if j % 2 == 0: sub_constraint = []                                *)
(*       sub_constraint.append(row[1][col])                                *)
(*       if j % 2 == 1: constraint.append(sub_constraint)                  *)
(* j is the 0-based column index; row[j + 1] is the 1-based TLA+ entry.    *)
(***************************************************************************)
RECURSIVE ExtractRow(_, _, _, _)
ExtractRow(row, j, constraint, sub_constraint) ==
    IF j = Len(row) THEN constraint
    ELSE LET started == IF j % 2 = 0 THEN <<>> ELSE sub_constraint
             appended == Append(started, row[j + 1])
             closed == IF j % 2 = 1 THEN Append(constraint, appended)
                       ELSE constraint
         IN  ExtractRow(row, j + 1, closed, appended)

\* The loop with the sub-list closed on the even columns instead of the odd
\* ones: a pair then straddles two sites.
RECURSIVE ExtractRowShifted(_, _, _, _)
ExtractRowShifted(row, j, constraint, sub_constraint) ==
    IF j = Len(row) THEN constraint
    ELSE LET started == IF j % 2 = 1 THEN <<>> ELSE sub_constraint
             appended == Append(started, row[j + 1])
             closed == IF j % 2 = 0 /\ j > 0 THEN Append(constraint, appended)
                       ELSE constraint
         IN  ExtractRowShifted(row, j + 1, closed, appended)

ExtractConstraintsShifted(hours) ==
    [i \in 1..Len(hours) |-> ExtractRowShifted(hours[i], 0, <<>>, <<>>)]

\* for i, row in enumerate(production_hours.iterrows()): ... constraints.append(constraint)
ExtractConstraints(hours) ==
    [i \in 1..Len(hours) |-> ExtractRow(hours[i], 0, <<>>, <<>>)]

ExtractCell ==
    /\ pc = "extract"
    /\ constraints' = ExtractConstraints(production_hours)
    /\ pc' = "create"
    /\ UNCHANGED <<run, seed, capacity, gen, production_hours, model, x,
                   feasible, output, prev_hours, sample, rounded>>

\* pulp.LpProblem created with LpMinimize, PuLP's default sense.
NewProblemDefaultSense == [EmptyModel EXCEPT !.sense = LpMinimize]

\* pulp.LpProblem("Profit_Maximization", pulp.LpMaximize)
NewProblem == [EmptyModel EXCEPT !.sense = LpMaximize]

CreateModelCell ==
    /\ pc = "create"
    /\ model' = NewProblem
    /\ pc' = "variables"
    /\ UNCHANGED <<run, seed, capacity, gen, production_hours, constraints, x,
                   feasible, output, prev_hours, sample, rounded>>

\* A variable required to be at least 1.
LpVariablePositive(name) == [name |-> name, lowBound |-> 1, cat |-> "Integer"]

\* pulp.LpVariable(name, lowBound=0, cat='Integer'): no upBound.
LpVariable(name) == [name |-> name, lowBound |-> 0, cat |-> "Integer"]

DecisionVariables ==
    <<LpVariable("x_1"), LpVariable("x_2"), LpVariable("x_3"), LpVariable("x_4")>>

\* The variables are registered with the problem when an expression using
\* them is added; they are kept with the model from their definition on.
VariablesCell ==
    /\ pc = "variables"
    /\ model' = [model EXCEPT !.variables = DecisionVariables]
    /\ pc' = "objective"
    /\ UNCHANGED <<run, seed, capacity, gen, production_hours, constraints, x,
                   feasible, output, prev_hours, sample, rounded>>

\* The objective with the T-shirt price on every variable.
ObjectiveFlatPrice == <<PriceTshirts, PriceTshirts, PriceTshirts, PriceTshirts>>

\* 10*x_1 + 15*x_2 + 10*x_3 + 15*x_4
Objective == <<PriceTshirts, PriceJeans, PriceTshirts, PriceJeans>>

ObjectiveCell ==
    /\ pc = "objective"
    /\ model' = [model EXCEPT !.objective = Objective]
    /\ pc' = "constraints"
    /\ UNCHANGED <<run, seed, capacity, gen, production_hours, constraints, x,
                   feasible, output, prev_hours, sample, rounded>>

LpConstraint(coef, rhs) == [coef |-> coef, rhs |-> rhs]

\* The constraints with the first two indices of constraints[i][j][k] taken
\* as [site][process] instead of [process][site].
ModelConstraintsSwapped(c, cap) ==
    << LpConstraint(<<c[1][1][1], c[1][1][2], 0, 0>>, cap[1]),
       LpConstraint(<<c[1][2][1], c[1][2][2], 0, 0>>, cap[2]),
       LpConstraint(<<0, 0, c[2][1][1], c[2][1][2]>>, cap[3]),
       LpConstraint(<<0, 0, c[2][2][1], c[2][2][2]>>, cap[4]),
       LpConstraint(<<ClothPerUnit, ClothPerUnit, ClothPerUnit, ClothPerUnit>>,
                    cap[5]) >>

\* The capacity constraints without the cloth constraint.
ModelConstraintsNoCloth(c, cap) ==
    << LpConstraint(<<c[1][1][1], c[1][1][2], 0, 0>>, cap[1]),
       LpConstraint(<<c[2][1][1], c[2][1][2], 0, 0>>, cap[2]),
       LpConstraint(<<0, 0, c[1][2][1], c[1][2][2]>>, cap[3]),
       LpConstraint(<<0, 0, c[2][2][1], c[2][2][2]>>, cap[4]) >>

\* The five "model += ... <= ..." lines; Python's constraints[i][j][k] is
\* c[i+1][j+1][k+1].
ModelConstraints(c, cap) ==
    << LpConstraint(<<c[1][1][1], c[1][1][2], 0, 0>>, cap[1]),
       LpConstraint(<<c[2][1][1], c[2][1][2], 0, 0>>, cap[2]),
       LpConstraint(<<0, 0, c[1][2][1], c[1][2][2]>>, cap[3]),
       LpConstraint(<<0, 0, c[2][2][1], c[2][2][2]>>, cap[4]),
       LpConstraint(<<ClothPerUnit, ClothPerUnit, ClothPerUnit, ClothPerUnit>>,
                    cap[5]) >>

ConstraintsCell ==
    /\ pc = "constraints"
    /\ model' = [model EXCEPT !.constraints = ModelConstraints(constraints, capacity)]
    /\ pc' = "solve"
    /\ UNCHANGED <<run, seed, capacity, gen, production_hours, constraints, x,
                   feasible, output, prev_hours, sample, rounded>>

(***************************************************************************)
(* model.solve(solver=pulp.COIN_CMD(msg=0)).  CBC is outside the notebook; *)
(* it is modelled by what it computes: the integer points within the       *)
(* variables' bounds that satisfy every constraint, and among them those   *)
(* with the best objective value for the problem's sense.  The variables   *)
(* have no upper bound; the search covers lowBound..MaxUnits and reports   *)
(* a model whose feasible region reaches MaxUnits as unbounded.            *)
(***************************************************************************)
Dot(a, p) == a[1] * p[1] + a[2] * p[2] + a[3] * p[3] + a[4] * p[4]

\* Every "<=" constraint of the problem holds at p.
Satisfies(lp, p) ==
    \A i \in 1..Len(lp.constraints) :
        Dot(lp.constraints[i].coef, p) <= lp.constraints[i].rhs

LowBounds(lp) ==
    <<lp.variables[1].lowBound, lp.variables[2].lowBound,
      lp.variables[3].lowBound, lp.variables[4].lowBound>>

\* The point p with variable k set to v.
WithValue(p, k, v) ==
    <<IF k = 1 THEN v ELSE p[1], IF k = 2 THEN v ELSE p[2],
      IF k = 3 THEN v ELSE p[3], IF k = 4 THEN v ELSE p[4]>>

\* With no negative coefficient and no negative value, raising a variable
\* never repairs a violated constraint: the search then skips the rest of
\* the variable's range.
Monotone(lp) ==
    /\ \A i \in 1..Len(lp.constraints) :
          \A j \in 1..NumVars : lp.constraints[i].coef[j] >= 0
    /\ \A j \in 1..NumVars : lp.variables[j].lowBound >= 0

\* The objective value at p, signed so that larger is better.
Score(lp, p) == (0 - lp.sense) * Dot(lp.objective, p)

NoPoint == [found |-> FALSE, score |-> 0, points |-> {}, edge |-> FALSE]

OnePoint(lp, p) ==
    [found |-> TRUE, score |-> Score(lp, p), points |-> {p},
     edge |-> \E j \in 1..NumVars : p[j] = MaxUnits]

Better(a, b) ==
    IF ~a.found THEN b
    ELSE IF ~b.found THEN a
    ELSE IF a.score > b.score THEN [a EXCEPT !.edge = a.edge \/ b.edge]
    ELSE IF b.score > a.score THEN [b EXCEPT !.edge = a.edge \/ b.edge]
    ELSE [a EXCEPT !.points = a.points \cup b.points,
                   !.edge = a.edge \/ b.edge]

\* The best feasible points among those that agree with p on variables
\* 1..k-1 and have variable k in lo..hi; p holds the lower bounds from k on.
\* The range is halved rather than walked, which keeps the nesting shallow.
\* mono is Monotone(lp); known tells that the point with variable k = lo was
\* already found to satisfy the constraints.
RECURSIVE Search(_, _, _, _, _, _, _)
Search(lp, mono, p, k, lo, hi, known) ==
    IF lo > hi THEN NoPoint
    ELSE LET q == WithValue(p, k, lo)
             fits == known \/ Satisfies(lp, q)
             mid == (lo + hi) \div 2
         IN  IF ~fits /\ mono THEN NoPoint
             ELSE IF lo < hi
             THEN Better(Search(lp, mono, p, k, lo, mid, fits),
                         Search(lp, mono, p, k, mid + 1, hi, FALSE))
             ELSE IF ~fits THEN NoPoint
             ELSE IF k = NumVars THEN OnePoint(lp, q)
             ELSE Search(lp, mono, q, k + 1, lp.variables[k + 1].lowBound,
                         MaxUnits, FALSE)

Optimum(lp) ==
    Search(lp, Monotone(lp), LowBounds(lp), 1, lp.variables[1].lowBound,
           MaxUnits, FALSE)

LpStatus(found) ==
    IF ~found.found THEN LpStatusInfeasible
    ELSE IF found.edge THEN LpStatusUnbounded
    ELSE LpStatusOptimal

SolveCell ==
    /\ pc = "solve"
    /\ LET found == Optimum(model)
           status == LpStatus(found)
       IN  /\ feasible' = status
           /\ IF status = LpStatusOptimal
              THEN x' \in found.points
              ELSE x' = x
    /\ pc' = "report"
    /\ UNCHANGED <<run, seed, capacity, gen, production_hours, constraints,
                   model, output, prev_hours, sample, rounded>>

(***************************************************************************)
(* The report cell.  x_i.value() is a float; "{}".format prints 6.0 for    *)
(* the value 6, which a line keeps as the number 6.                        *)
(***************************************************************************)
\* pulp.value(model.objective)
ObjectiveValue(lp, p) == Dot(lp.objective, p)

FailureLines == << Line("No feasible solution found", <<>>) >>

\* The report without the two cloth lines.
SuccessLinesNoCloth(lp, p) ==
    << Line("Production Quantities:", <<>>),
       Line("Jeans in Besiktas: ", <<p[2]>>),
       Line("Jeans in Davutpasa: ", <<p[4]>>),
       Line("T-shirts in Besiktas: ", <<p[1]>>),
       Line("T-shirts in Davutpasa: ", <<p[3]>>),
       Line("Total amount used:", <<>>),
       Line("Cutting in Besiktas: ", <<p[1] + p[2]>>),
       Line("Cutting in Davutpasa: ", <<p[3] + p[4]>>),
       Line("Sewing in Besiktas: ", <<p[1] + p[2]>>),
       Line("Sewing in Davutpasa: ", <<p[3] + p[4]>>),
       Line("Total profit: ", <<Dot(lp.objective, p)>>) >>

SuccessLines(lp, p) ==
    << Line("Production Quantities:", <<>>),
       Line("Jeans in Besiktas: ", <<p[2]>>),
       Line("Jeans in Davutpasa: ", <<p[4]>>),
       Line("T-shirts in Besiktas: ", <<p[1]>>),
       Line("T-shirts in Davutpasa: ", <<p[3]>>),
       Line("Total amount used:", <<>>),
       Line("Cutting in Besiktas: ", <<p[1] + p[2]>>),
       Line("Cutting in Davutpasa: ", <<p[3] + p[4]>>),
       Line("Sewing in Besiktas: ", <<p[1] + p[2]>>),
       Line("Sewing in Davutpasa: ", <<p[3] + p[4]>>),
       Line("Cloths in Besiktas: ", <<ClothPerUnit * (p[1] + p[2])>>),
       Line("Cloths in Davutpasa: ", <<ClothPerUnit * (p[3] + p[4])>>),
       Line("Total profit: ", <<ObjectiveValue(lp, p)>>) >>

\* The branch taken on every status but "infeasible".
ReportUnlessInfeasible(status, lp, p) ==
    IF status # LpStatusInfeasible THEN SuccessLines(lp, p) ELSE FailureLines

\* if feasible == 1: ... else: print("No feasible solution found")
Report(status, lp, p) ==
    IF status = LpStatusOptimal THEN SuccessLines(lp, p) ELSE FailureLines

ReportCell ==
    /\ pc = "report"
    /\ output' = output \o Report(feasible, model, x)
    /\ pc' = "done"
    /\ UNCHANGED <<run, seed, capacity, gen, production_hours, constraints,
                   model, x, feasible, prev_hours, sample, rounded>>

Next == SeedCell \/ GenerateCell \/ ExtractCell \/ CreateModelCell
        \/ VariablesCell \/ ObjectiveCell \/ ConstraintsCell
        \/ SolveCell \/ ReportCell

\* One execution of the notebook as written, for each seed considered.
Spec == Init /\ [][Next]_vars

(***************************************************************************)
(* A second execution: the kernel is restarted, at any point after the     *)
(* table was generated, and the cells are run again.  The new process      *)
(* starts with an unseeded generator and with nothing defined; prev_hours  *)
(* keeps the first table for comparison.                                   *)
(***************************************************************************)
Rerun ==
    /\ pc \notin {"seed", "generate"}
    /\ run = 1
    /\ run' = 2
    /\ pc' = "seed"
    /\ gen' = UnseededGen(2)
    /\ prev_hours' = production_hours
    /\ production_hours' = <<>>
    /\ constraints' = <<>>
    /\ model' = EmptyModel
    /\ x' = <<>>
    /\ feasible' = LpStatusNotSolved
    /\ output' = <<>>
    /\ UNCHANGED <<seed, capacity, sample, rounded>>

NextRerun == Next \/ Rerun

SpecRerun == Init /\ [][NextRerun]_vars

(***************************************************************************)
(* The notebook with every right-hand side of the constraints cell set to  *)
(* 0 (the four capacities and the cloth supply).                           *)
(***************************************************************************)
ZeroCapacity == <<0, 0, 0, 0, 0>>

InitZeroCapacity == \E s \in Seeds : Fresh(1, s, ZeroCapacity)

SpecZeroCapacity == InitZeroCapacity /\ [][Next]_vars

(***************************************************************************)
(* The report cell on its own: the state the first eight cells leave for   *)
(* the program's seed, with any status code and any values in x.           *)
(***************************************************************************)
TableOf(s) ==
    LET g == np_random_seed(UnseededGen(1), s)
        s1 == CHOOSE v \in random_sample(g, SampleSize) : TRUE
        s2 == CHOOSE v \in random_sample(Advance(g, SampleSize), SampleSize) : TRUE
        a == CHOOSE v \in RandomInts(s1) : TRUE
        b == CHOOSE v \in RandomInts(s2) : TRUE
    IN  ConcatColumns(Reshape22(a), Reshape22(b))

BuiltModel(c, cap) ==
    [NewProblem EXCEPT !.variables = DecisionVariables,
                       !.objective = Objective,
                       !.constraints = ModelConstraints(c, cap)]

InitReport ==
    /\ pc = "report"
    /\ run = 1
    /\ seed = ProgramSeed
    /\ capacity = ProgramCapacity
    /\ gen = Advance(np_random_seed(UnseededGen(1), ProgramSeed), 2 * SampleSize)
    /\ production_hours = TableOf(ProgramSeed)
    /\ constraints = ExtractConstraints(production_hours)
    /\ model = BuiltModel(constraints, capacity)
    /\ feasible \in LpStatusCodes
    /\ x \in (0..MaxReportUnits) \X (0..MaxReportUnits)
             \X (0..MaxReportUnits) \X (0..MaxReportUnits)
    /\ output = PrintTable(production_hours)
    /\ prev_hours = <<>>
    /\ sample = 0
    /\ rounded = 0

NextReport == ReportCell

SpecReport == InitReport /\ [][NextReport]_vars

(***************************************************************************)
(* One entry of RandomFtoD1 / RandomDtoS1 on its own: any value of         *)
(* random_sample(), scaled, rounded and converted.                         *)
(***************************************************************************)
InitRound ==
    /\ pc = "round"
    /\ run = 1
    /\ seed = ProgramSeed
    /\ capacity = ProgramCapacity
    /\ gen = UnseededGen(1)
    /\ production_hours = <<>>
    /\ constraints = <<>>
    /\ model = EmptyModel
    /\ x = <<>>
    /\ feasible = LpStatusNotSolved
    /\ output = <<>>
    /\ prev_hours = <<>>
    /\ sample \in RandomSamples
    /\ rounded = 0

RoundSample ==
    /\ pc = "round"
    /\ rounded' \in Coefficient(sample)
    /\ pc' = "rounded"
    /\ UNCHANGED <<run, seed, capacity, gen, production_hours, constraints,
                   model, x, feasible, output, prev_hours, sample>>

NextRound == RoundSample

SpecRound == InitRound /\ [][NextRound]_vars

(***************************************************************************)
(* Properties.  The constraints, prices and capacities are written here    *)
(* as the specification states them, over the production_hours table h     *)
(* (h[1] Cutting, h[2] Sewing; columns 1,2 Besiktas and 3,4 Davutpasa),    *)
(* independently of the model the cells build.                             *)
(***************************************************************************)
Box == 0..MaxUnits

FailureLabel == "No feasible solution found"

\* The lines printed after the four lines of the coefficient table.
ReportLines == SubSeq(output, 5, Len(output))

NumericLines == {i \in 1..Len(ReportLines) : Len(ReportLines[i].values) = 1}

LinesLabelled(labels) == {i \in NumericLines : ReportLines[i].label \in labels}

HasFailureLine == \E i \in 1..Len(output) : output[i].label = FailureLabel

HasQuantityLine == \E i \in 1..Len(output) : Len(output[i].values) = 1

TableInRange(h) ==
    /\ Len(h) = 2
    /\ \A i \in 1..2 : Len(h[i]) = 4 /\ \A c \in 1..4 : h[i][c] \in 1..10

StatedSiteA(h, cap, a, b) ==
    /\ h[1][1] * a + h[1][2] * b <= cap[1]
    /\ h[2][1] * a + h[2][2] * b <= cap[2]

StatedSiteB(h, cap, c, d) ==
    /\ h[1][3] * c + h[1][4] * d <= cap[3]
    /\ h[2][3] * c + h[2][4] * d <= cap[4]

StatedCloth(cap, a, b, c, d) == 4 * (a + b + c + d) <= cap[5]

StatedFeasible(h, cap, p) ==
    /\ StatedSiteA(h, cap, p[1], p[2])
    /\ StatedSiteB(h, cap, p[3], p[4])
    /\ StatedCloth(cap, p[1], p[2], p[3], p[4])

StatedCapacity == <<80, 60, 60, 75, 120>>

StatedProfit(p) == 10 * p[1] + 15 * p[2] + 10 * p[3] + 15 * p[4]

\* No point of the box that satisfies the five stated constraints has a
\* profit above best.  The table's entries are positive, so a prefix that
\* violates a constraint with the remaining variables at 0 is skipped.
NoStatedPointAbove(h, cap, best) ==
    \A a \in Box : StatedSiteA(h, cap, a, 0) /\ StatedCloth(cap, a, 0, 0, 0) =>
    \A b \in Box : StatedSiteA(h, cap, a, b) /\ StatedCloth(cap, a, b, 0, 0) =>
    \A c \in Box : StatedSiteB(h, cap, c, 0) /\ StatedCloth(cap, a, b, c, 0) =>
    \A d \in Box : StatedSiteB(h, cap, c, d) /\ StatedCloth(cap, a, b, c, d) =>
        StatedProfit(<<a, b, c, d>>) <= best

\* The only point of the box that satisfies the five stated constraints and
\* has profit best is p.
OnlyStatedPointAt(h, cap, best, p) ==
    \A a \in Box : StatedSiteA(h, cap, a, 0) /\ StatedCloth(cap, a, 0, 0, 0) =>
    \A b \in Box : StatedSiteA(h, cap, a, b) /\ StatedCloth(cap, a, b, 0, 0) =>
    \A c \in Box : StatedSiteB(h, cap, c, 0) /\ StatedCloth(cap, a, b, c, 0) =>
    \A d \in Box : StatedSiteB(h, cap, c, d) /\ StatedCloth(cap, a, b, c, d)
                   /\ StatedProfit(<<a, b, c, d>>) = best =>
        <<a, b, c, d>> = p

\* Every point of the box that satisfies the constraints of the built
\* problem lp has at most n units in total.
ModelPointsWithin(lp, n) ==
    LET mono == Monotone(lp)
        ok(q) == ~mono \/ Satisfies(lp, q)
    IN  \A a \in Box : ok(<<a, 0, 0, 0>>) =>
        \A b \in Box : ok(<<a, b, 0, 0>>) =>
        \A c \in Box : ok(<<a, b, c, 0>>) =>
        \A d \in Box : Satisfies(lp, <<a, b, c, d>>) => a + b + c + d <= n

Solved == pc \in {"report", "done"}

----
\* C1: in the example scenario (table Cutting 10 4 2 7 / Sewing 9 10 7 8,
\* capacities 80/60/60/75, cloth 4 per unit of 120, prices 10/15/10/15) the
\* run ends in the success branch with x = (0, 6, 1, 8) and total profit 220,
\* and no other non-negative integer point reaches profit 220.
ExampleTable == << <<10, 4, 2, 7>>, <<9, 10, 7, 8>> >>

ExampleSolution == <<0, 6, 1, 8>>

C1_ExampleScenario ==
    (pc = "done" /\ production_hours = ExampleTable) =>
        /\ capacity = StatedCapacity
        /\ model.objective = <<10, 15, 10, 15>>
        /\ feasible = 1
        /\ x = ExampleSolution
        /\ ~HasFailureLine
        /\ Len(ReportLines) > 0
        /\ ReportLines[Len(ReportLines)] = Line("Total profit: ", <<220>>)
        /\ StatedFeasible(ExampleTable, StatedCapacity, ExampleSolution)
        /\ StatedProfit(ExampleSolution) = 220
        /\ NoStatedPointAbove(ExampleTable, StatedCapacity, 220)
        /\ OnlyStatedPointAt(ExampleTable, StatedCapacity, 220, ExampleSolution)

C1_Witness ==
    /\ pc = "done"
    /\ seed = ProgramSeed
    /\ production_hours = ExampleTable
    /\ x = ExampleSolution

\* C2: for every table with entries in 1..10, when solving succeeds the
\* reported profit equals 10*x1 + 15*x2 + 10*x3 + 15*x4 at the solved point
\* and no non-negative integer point satisfying the five constraints has a
\* strictly higher value.
C2_Optimality ==
    (pc = "done" /\ feasible = 1 /\ TableInRange(production_hours)) =>
        /\ Len(ReportLines) > 0
        /\ ReportLines[Len(ReportLines)] = Line("Total profit: ", <<StatedProfit(x)>>)
        /\ NoStatedPointAbove(production_hours, StatedCapacity, StatedProfit(x))

C2_Witness ==
    /\ pc = "done"
    /\ feasible = 1
    /\ seed # ProgramSeed
    /\ x = <<0, 15, 0, 15>>
    /\ ReportLines[Len(ReportLines)] = Line("Total profit: ", <<450>>)

\* C3: whenever solving succeeds, x1..x4 are non-negative integers that
\* satisfy each of the five inequalities, for every table with entries in
\* 1..10.
C3_SolutionFeasible ==
    (Solved /\ feasible = 1 /\ TableInRange(production_hours)) =>
        /\ Len(x) = 4
        /\ \A i \in 1..4 : x[i] \in Nat
        /\ StatedFeasible(production_hours, StatedCapacity, x)

C3_Witness ==
    /\ pc = "report"
    /\ feasible = 1
    /\ TableInRange(production_hours)
    /\ x[1] + x[2] + x[3] + x[4] = 30
    /\ x[1] > 0

\* C4: the reporter's output is decided by the status alone: on any status
\* other than 1 it prints exactly the line "No feasible solution found" and
\* no quantity, utilization, cloth or profit line; on status 1 it prints
\* those lines and never the failure line; the run ends normally and the
\* solver is not called again.
C4_ReportByStatus ==
    pc = "done" =>
        /\ feasible # 1 =>
              /\ Len(ReportLines) = 1
              /\ ReportLines[1].label = FailureLabel
              /\ ~HasQuantityLine
        /\ feasible = 1 =>
              /\ ~HasFailureLine
              /\ Cardinality(LinesLabelled({"Jeans in Besiktas: ",
                     "Jeans in Davutpasa: ", "T-shirts in Besiktas: ",
                     "T-shirts in Davutpasa: "})) = 4
              /\ Cardinality(LinesLabelled({"Cutting in Besiktas: ",
                     "Cutting in Davutpasa: ", "Sewing in Besiktas: ",
                     "Sewing in Davutpasa: "})) = 4
              /\ Cardinality(LinesLabelled({"Cloths in Besiktas: ",
                     "Cloths in Davutpasa: "})) = 2
              /\ Cardinality(LinesLabelled({"Total profit: "})) = 1
        /\ ~ENABLED SolveCell
        /\ ~ENABLED ReportCell

C4_Witness ==
    /\ pc = "done"
    /\ feasible = LpStatusNotSolved
    /\ Len(ReportLines) = 1
    /\ ReportLines[1].label = FailureLabel

\* C5 as stated: on success the run prints, after the coefficient table,
\* exactly nine labeled numeric lines (four quantities, four utilization
\* figures, one profit).
C5_NineNumericLines ==
    (pc = "done" /\ feasible = 1) => Cardinality(NumericLines) = 9

\* C5, amended: on success the run prints, after the four lines of the
\* coefficient table, two headings and eleven labeled numeric lines: four
\* quantities, four utilization figures, two cloth figures and one profit.
C5_ElevenNumericLines ==
    (pc = "done" /\ feasible = 1) =>
        /\ Len(output) = 4 + 13
        /\ SubSeq(output, 1, 4) = PrintTable(production_hours)
        /\ Cardinality(NumericLines) = 11
        /\ Cardinality(LinesLabelled({"Jeans in Besiktas: ",
               "Jeans in Davutpasa: ", "T-shirts in Besiktas: ",
               "T-shirts in Davutpasa: "})) = 4
        /\ Cardinality(LinesLabelled({"Cutting in Besiktas: ",
               "Cutting in Davutpasa: ", "Sewing in Besiktas: ",
               "Sewing in Davutpasa: "})) = 4
        /\ Cardinality(LinesLabelled({"Cloths in Besiktas: ",
               "Cloths in Davutpasa: "})) = 2
        /\ Cardinality(LinesLabelled({"Total profit: "})) = 1

C5_Witness ==
    /\ pc = "done"
    /\ feasible = 1
    /\ Len(output) = 17
    /\ ReportLines[11] = Line("Cloths in Besiktas: ", <<4 * (x[1] + x[2])>>)
    /\ x[1] + x[2] > 0

\* C6 as stated: with every capacity constant 0 and positive coefficients,
\* no non-negative integer assignment satisfies all five constraints, and
\* the run emits exactly the failure message and no quantity lines.
C6_ZeroCapacityInfeasible ==
    (pc = "done" /\ capacity = ZeroCapacity) =>
        /\ ~StatedFeasible(production_hours, ZeroCapacity, <<0, 0, 0, 0>>)
        /\ Len(ReportLines) = 1
        /\ ReportLines[1].label = FailureLabel

\* C6, amended: with every capacity constant 0 and positive coefficients,
\* the all-zero assignment is the only non-negative integer assignment that
\* satisfies all five constraints; solving succeeds with x = (0, 0, 0, 0) and
\* the run prints the quantity lines with 0 and total profit 0, never the
\* failure message.
C6_ZeroCapacityZeroPlan ==
    (pc = "done" /\ capacity = ZeroCapacity /\ TableInRange(production_hours)) =>
        /\ \A i \in 1..Len(model.constraints) : model.constraints[i].rhs = 0
        /\ StatedFeasible(production_hours, ZeroCapacity, <<0, 0, 0, 0>>)
        /\ Satisfies(model, <<0, 0, 0, 0>>)
        /\ ModelPointsWithin(model, 0)
        /\ feasible = 1
        /\ x = <<0, 0, 0, 0>>
        /\ ~HasFailureLine
        /\ Cardinality(NumericLines) = 11
        /\ \A i \in NumericLines : ReportLines[i].values = <<0>>

C6_Witness ==
    /\ pc = "done"
    /\ capacity = ZeroCapacity
    /\ TableInRange(production_hours)
    /\ x = <<0, 0, 0, 0>>
    /\ ReportLines[Len(ReportLines)] = Line("Total profit: ", <<0>>)

\* C7: two runs that start from the same seed produce identical coefficient
\* tables: all eight entries agree, the four site-B entries (second draw on
\* the generator state left by the first) included.
C7_SameSeedSameTable ==
    (run = 2 /\ production_hours # <<>>) =>
        /\ TableInRange(production_hours)
        /\ TableInRange(prev_hours)
        /\ \A i \in 1..2 : \A c \in 1..4 : production_hours[i][c] = prev_hours[i][c]
        /\ gen = [seeded |-> TRUE, key |-> seed, pos |-> 8]

C7_Witness ==
    /\ run = 2
    /\ pc = "extract"
    /\ seed # ProgramSeed
    /\ TableInRange(prev_hours)
    /\ production_hours = prev_hours

\* C8: every generated coefficient is an integer in 1..10 (never 0, never
\* 11), for every value the underlying draw can take before it is rounded.
C8_CoefficientInRange ==
    pc = "rounded" => rounded \in 1..10

C8_Witness ==
    /\ pc = "rounded"
    /\ sample = Unit - 1
    /\ rounded = 10

\* C9: after the extraction loop, constraints has shape 2x2x2 and
\* constraints[i][j][k] is the table entry of row i and column 2*j+k
\* (0-based); each capacity constraint then multiplies x1..x4 by the
\* coefficient of its own process, site and product, and by 0 elsewhere.
C9_ExtractionIndexing ==
    /\ pc \notin {"seed", "generate", "extract", "round", "rounded"} =>
          /\ Len(constraints) = 2
          /\ \A i \in 1..2 :
                /\ Len(constraints[i]) = 2
                /\ \A j \in 1..2 :
                      /\ Len(constraints[i][j]) = 2
                      /\ \A k \in 1..2 :
                            constraints[i][j][k]
                                = production_hours[i][2 * (j - 1) + (k - 1) + 1]
    /\ pc \in {"solve", "report", "done"} =>
          LET h == production_hours
          IN  /\ Len(model.constraints) = 5
              /\ model.constraints[1].coef = <<h[1][1], h[1][2], 0, 0>>
              /\ model.constraints[2].coef = <<h[2][1], h[2][2], 0, 0>>
              /\ model.constraints[3].coef = <<0, 0, h[1][3], h[1][4]>>
              /\ model.constraints[4].coef = <<0, 0, h[2][3], h[2][4]>>

C9_Witness ==
    /\ pc = "solve"
    /\ production_hours = ExampleTable
    /\ constraints = << << <<10, 4>>, <<2, 7>> >>, << <<9, 10>>, <<7, 8>> >> >>
    /\ model.constraints[3] = LpConstraint(<<0, 0, 2, 7>>, 60)

\* C10: for every table with entries in 1..10 and the capacities 80, 60,
\* 60, 75 and cloth supply 120, the all-zero assignment satisfies the five
\* constraints and every feasible point has x1+x2+x3+x4 <= 30, so an
\* optimum exists; no run reaches "No feasible solution found".
C10_AlwaysSolvable ==
    /\ (pc = "solve" /\ TableInRange(production_hours)) =>
          /\ capacity = StatedCapacity
          /\ Satisfies(model, <<0, 0, 0, 0>>)
          /\ ModelPointsWithin(model, 30)
    /\ Solved => feasible = 1
    /\ ~HasFailureLine

C10_Witness ==
    /\ pc = "done"
    /\ feasible = 1
    /\ ~HasFailureLine
    /\ x[1] + x[2] + x[3] + x[4] = 30
====
